---- MODULE Spec2Model ----
(***************************************************************************)
(* wherewasi: the session discovery and aggregation pipeline of            *)
(* src/wherewasi/cli.py (_read_jsonl_session, _scan_projects).             *)
(*                                                                         *)
(* A log file is a sequence of lines; a line is undecodable, a JSON value  *)
(* that is not an object, or a JSON object.  JSON values are strings; the  *)
(* values that are not strings are the marker strings below.               *)
(* Project.description is not modelled: it is read from a CLAUDE.md at the *)
(* originating path and takes no part in grouping or ordering.             *)
(***************************************************************************)
EXTENDS Integers, Sequences, FiniteSets, TLC

VARIABLES root_exists, fs, di, fi, pc, projects, jsonl_file, read_result, result

vars == <<root_exists, fs, di, fi, pc, projects, jsonl_file, read_result, result>>

(***************************************************************************)
(* Bounds                                                                  *)
(***************************************************************************)
MaxLines == 3
MaxFiles == 3
MaxTime == 2

(***************************************************************************)
(* JSON values                                                             *)
(***************************************************************************)
ABSENT == "<absent>"
None == "<None>"
NUMBER == "<number>"
LIST == "<list>"
OBJECT == "<object>"

IsStr(v) == v \notin {None, NUMBER, LIST, OBJECT}

Truthy(v) == v \notin {None, ""}

Get(rec, key, default) == IF rec[key] = ABSENT THEN default ELSE rec[key]

Rec(type, timestamp, summary, message, content, cwd) ==
    [json |-> "object", type |-> type, timestamp |-> timestamp, summary |-> summary,
     message |-> message, content |-> content, cwd |-> cwd]

Undecodable ==
    [json |-> "invalid", type |-> ABSENT, timestamp |-> ABSENT, summary |-> ABSENT,
     message |-> ABSENT, content |-> ABSENT, cwd |-> ABSENT]

NonObject ==
    [json |-> "value", type |-> ABSENT, timestamp |-> ABSENT, summary |-> ABSENT,
     message |-> ABSENT, content |-> ABSENT, cwd |-> ABSENT]

(***************************************************************************)
(* _parse_datetime: "Z" is replaced by "+00:00", then the string is parsed *)
(* as ISO-8601.  Instants are hours of 2026-01-19 UTC.                     *)
(***************************************************************************)
T1Z == "2026-01-19T01:00:00Z"
T2 == "2026-01-19T02:00:00+00:00"
NotIso == "yesterday"

ReplaceZ(s) == IF s = T1Z THEN "2026-01-19T01:00:00+00:00" ELSE s

FromIsoFormat(s) ==
    CASE s = "2026-01-19T01:00:00+00:00" -> [exc |-> "", instant |-> 1]
      [] s = "2026-01-19T02:00:00+00:00" -> [exc |-> "", instant |-> 2]
      [] OTHER -> [exc |-> "ValueError", instant |-> 0]

ParseDatetime(s) ==
    IF ~IsStr(s) THEN [exc |-> "AttributeError", instant |-> 0]
    ELSE FromIsoFormat(ReplaceZ(s))

(***************************************************************************)
(* _read_jsonl_session                                                     *)
(***************************************************************************)
InitAcc == [summary |-> "", first_prompt |-> "", cwd |-> "", first_ts |-> None, exc |-> ""]

UpdateTs(acc, rec) ==
    IF acc.first_ts = None /\ Truthy(Get(rec, "timestamp", None))
    THEN [acc EXCEPT !.first_ts = Get(rec, "timestamp", None)]
    ELSE acc

UpdateSummary(acc, rec) ==
    IF rec.type = "summary"
    THEN [acc EXCEPT !.summary = Get(rec, "summary", "")]
    ELSE acc

MessageContent(rec) ==
    IF rec.message = ABSENT THEN ""
    ELSE Get(rec, "content", "")

UpdateUserNoGuard(acc, rec) ==
    IF rec.type = "user"
    THEN IF rec.message \notin {ABSENT, OBJECT}
         THEN [acc EXCEPT !.exc = "AttributeError"]
         ELSE LET content == MessageContent(rec)
                  a == IF IsStr(content) THEN [acc EXCEPT !.first_prompt = content] ELSE acc
              IN IF ~Truthy(a.cwd) THEN [a EXCEPT !.cwd = Get(rec, "cwd", "")] ELSE a
    ELSE acc

UpdateUser(acc, rec) ==
    IF rec.type = "user" /\ ~Truthy(acc.first_prompt)
    THEN IF rec.message \notin {ABSENT, OBJECT}
         THEN [acc EXCEPT !.exc = "AttributeError"]
         ELSE LET content == MessageContent(rec)
                  a == IF IsStr(content) THEN [acc EXCEPT !.first_prompt = content] ELSE acc
              IN IF ~Truthy(a.cwd) THEN [a EXCEPT !.cwd = Get(rec, "cwd", "")] ELSE a
    ELSE acc

Update(acc, rec) == UpdateUser(UpdateSummary(UpdateTs(acc, rec), rec), rec)

Enough(acc) == Truthy(acc.first_ts) /\ Truthy(acc.first_prompt) /\ Truthy(acc.summary)

RECURSIVE ReadLines(_, _)
ReadLines(lines, acc) ==
    IF lines = <<>> THEN acc
    ELSE LET line == Head(lines) IN
         IF line.json = "invalid" THEN ReadLines(Tail(lines), acc)
         ELSE IF line.json = "value" THEN [acc EXCEPT !.exc = "AttributeError"]
         ELSE LET a == Update(acc, line) IN
              IF a.exc # "" \/ Enough(a) THEN a
              ELSE ReadLines(Tail(lines), a)

NoSession == [summary |-> "", first_prompt |-> "", modified |-> 0, created |-> 0]

ReturnNone == [kind |-> "none", exc |-> "", cwd |-> "", session |-> NoSession]

Raise(exc) == [kind |-> "raise", exc |-> exc, cwd |-> "", session |-> NoSession]

MakeSessionEpochDefault(acc, mtime) ==
    IF acc.exc # "" THEN Raise(acc.exc)
    ELSE LET created == IF acc.first_ts = None THEN [exc |-> "", instant |-> 0]
                        ELSE ParseDatetime(acc.first_ts) IN
         IF created.exc # "" THEN Raise(created.exc)
         ELSE [kind |-> "session", exc |-> "", cwd |-> acc.cwd,
               session |-> [summary |-> acc.summary, first_prompt |-> acc.first_prompt,
                            modified |-> mtime, created |-> created.instant]]

MakeSession(acc, mtime) ==
    IF acc.exc # "" THEN Raise(acc.exc)
    ELSE IF acc.first_ts = None THEN ReturnNone
    ELSE LET created == ParseDatetime(acc.first_ts) IN
         IF created.exc # "" THEN Raise(created.exc)
         ELSE [kind |-> "session", exc |-> "", cwd |-> acc.cwd,
               session |-> [summary |-> acc.summary, first_prompt |-> acc.first_prompt,
                            modified |-> mtime, created |-> created.instant]]

ReadJsonlSession(file) ==
    IF ~file.readable THEN ReturnNone
    ELSE MakeSession(ReadLines(file.lines, InitAcc), file.mtime)

(***************************************************************************)
(* _scan_projects                                                          *)
(***************************************************************************)
PathParts(p) ==
    CASE p = "/tmp/b" -> <<"tmp", "b">>
      [] p = "/b" -> <<"b">>
      [] OTHER -> <<>>

PathName(p) == IF PathParts(p) = <<>> THEN "" ELSE PathParts(p)[Len(PathParts(p))]

ProjectName(cwd) == IF PathName(cwd) # "" THEN PathName(cwd) ELSE cwd

HasKey(projs, cwd) == \E i \in 1..Len(projs) : projs[i].path = cwd

NewProject(cwd) == [name |-> ProjectName(cwd), path |-> cwd, sessions |-> <<>>]

AddSessionNoMerge(projs, cwd, session) ==
    Append(projs, [NewProject(cwd) EXCEPT !.sessions = <<session>>])

AddSession(projs, cwd, session) ==
    LET ps == IF HasKey(projs, cwd) THEN projs ELSE Append(projs, NewProject(cwd))
    IN [i \in 1..Len(ps) |->
          IF ps[i].path = cwd
          THEN [ps[i] EXCEPT !.sessions = Append(ps[i].sessions, session)]
          ELSE ps[i]]

ScanJsonlFile(acc, file) ==
    LET r == ReadJsonlSession(file) IN
    IF acc.exc # "" THEN acc
    ELSE IF r.kind = "raise" THEN [acc EXCEPT !.exc = r.exc]
    ELSE IF r.kind = "none" THEN acc
    ELSE IF ~IsStr(r.cwd) THEN [acc EXCEPT !.exc = "TypeError"]
    ELSE [acc EXCEPT !.projects = AddSession(acc.projects, r.cwd, r.session)]

DescendingTiesReversed(keys) ==
    LET n == Len(keys)
        rank(i) == Cardinality({j \in 1..n : keys[j] > keys[i]})
                   + Cardinality({j \in 1..n : j > i /\ keys[j] = keys[i]}) + 1
    IN [k \in 1..n |-> CHOOSE i \in 1..n : rank(i) = k]

StableDescending(keys) ==
    LET n == Len(keys)
        rank(i) == Cardinality({j \in 1..n : keys[j] > keys[i]})
                   + Cardinality({j \in 1..n : j < i /\ keys[j] = keys[i]}) + 1
    IN [k \in 1..n |-> CHOOSE i \in 1..n : rank(i) = k]

KeepDiscoveryOrder(sessions) == sessions

SortSessions(sessions) ==
    LET order == StableDescending([i \in 1..Len(sessions) |-> sessions[i].modified])
    IN [k \in 1..Len(sessions) |-> sessions[order[k]]]

OldestSession(project) ==
    CHOOSE m \in {project.sessions[i].modified : i \in 1..Len(project.sessions)} :
        \A i \in 1..Len(project.sessions) : project.sessions[i].modified >= m

LastActive(project) ==
    CHOOSE m \in {project.sessions[i].modified : i \in 1..Len(project.sessions)} :
        \A i \in 1..Len(project.sessions) : project.sessions[i].modified <= m

SortProjects(projs) ==
    LET order == StableDescending([i \in 1..Len(projs) |-> LastActive(projs[i])])
    IN [k \in 1..Len(projs) |-> projs[order[k]]]

SortAllSessions(projs) ==
    [i \in 1..Len(projs) |-> [projs[i] EXCEPT !.sessions = SortSessions(projs[i].sessions)]]

RECURSIVE ScanDir(_, _)
ScanDir(acc, files) ==
    IF files = <<>> THEN acc ELSE ScanDir(ScanJsonlFile(acc, Head(files)), Tail(files))

RECURSIVE ScanEntries(_, _)
ScanEntries(acc, entries) ==
    IF entries = <<>> THEN acc
    ELSE IF ~Head(entries).is_dir THEN ScanEntries(acc, Tail(entries))
    ELSE ScanEntries(ScanDir(acc, Head(entries).files), Tail(entries))

ScanProjects(exists, entries) ==
    IF ~exists THEN [exc |-> "", result |-> <<>>]
    ELSE LET acc == ScanEntries([exc |-> "", projects |-> <<>>], entries) IN
         IF acc.exc # "" THEN [exc |-> acc.exc, result |-> <<>>]
         ELSE [exc |-> "", result |-> SortProjects(SortAllSessions(acc.projects))]

(***************************************************************************)
(* Inputs.  A file system is the sequence of the root's entries in         *)
(* iterdir order, each directory holding its *.jsonl files in glob order.  *)
(* ReadFileSystems: one file, every sequence of at most MaxLines Records.  *)
(* ScanFileSystems: at most MaxFiles files, each one of ScanFiles, in two  *)
(* directories around an entry that is not a directory.                    *)
(***************************************************************************)
SeqsUpTo(S, n) == UNION {[1..k -> S] : k \in 0..n}

File(lines, mtime) == [lines |-> lines, mtime |-> mtime, readable |-> TRUE]

Unreadable == [lines |-> <<>>, mtime |-> 1, readable |-> FALSE]

NoFile == [lines |-> <<>>, mtime |-> 0, readable |-> FALSE]

Dir(files) == [is_dir |-> TRUE, files |-> files]

NotADir == [is_dir |-> FALSE, files |-> <<>>]

OtherRecords ==
    {Rec("assistant", ts, ABSENT, ABSENT, ABSENT, ABSENT) : ts \in {ABSENT, "", T1Z, NotIso, NUMBER}}

SummaryRecords ==
    {Rec("summary", ABSENT, s, ABSENT, ABSENT, ABSENT) : s \in {ABSENT, "S1", "S2"}}
    \cup {Rec("summary", T2, "S1", ABSENT, ABSENT, ABSENT)}

UserRecords ==
    { Rec("user", T2, ABSENT, OBJECT, "p1", "/tmp/b"),
      Rec("user", ABSENT, ABSENT, OBJECT, "p2", "/b"),
      Rec("user", ABSENT, ABSENT, OBJECT, LIST, "/tmp/b"),
      Rec("user", T2, ABSENT, OBJECT, LIST, ABSENT),
      Rec("user", ABSENT, ABSENT, OBJECT, "p1", None),
      Rec("user", T2, ABSENT, LIST, ABSENT, "/b"),
      Rec("user", ABSENT, ABSENT, ABSENT, ABSENT, "/") }

Records == {Undecodable, NonObject} \cup OtherRecords \cup SummaryRecords \cup UserRecords

ReadFileSystems ==
    {<<>>, <<NotADir>>, <<Dir(<<Unreadable>>)>>}
    \cup {<<Dir(<<File(lines, 1)>>)>> : lines \in SeqsUpTo(Records, MaxLines)}

SessionLogs ==
    { <<Rec("summary", ABSENT, "S1", ABSENT, ABSENT, ABSENT),
        Rec("user", T1Z, ABSENT, OBJECT, "p1", "/tmp/b")>>,
      <<Rec("user", T2, ABSENT, OBJECT, "p1", "/tmp/b")>>,
      <<Rec("user", T2, ABSENT, OBJECT, "p2", "/b")>>,
      <<Rec("assistant", T1Z, ABSENT, ABSENT, ABSENT, ABSENT)>> }

OtherLogs ==
    { <<Rec("summary", ABSENT, "S1", ABSENT, ABSENT, ABSENT)>>,
      <<NonObject>> }

ScanFiles ==
    {File(lines, t) : lines \in SessionLogs, t \in 1..MaxTime}
    \cup {File(lines, 1) : lines \in OtherLogs}

Layout(files, cut) ==
    <<Dir(SubSeq(files, 1, cut)), NotADir, Dir(SubSeq(files, cut + 1, Len(files)))>>

ScanFileSystems ==
    {Layout(t[1], t[2]) :
        t \in {u \in SeqsUpTo(ScanFiles, MaxFiles) \X {0, 1} : u[2] <= Len(u[1])}}

(***************************************************************************)
(* The scan as a state machine                                             *)
(***************************************************************************)
Start ==
    /\ di = 1
    /\ fi = 1
    /\ pc = "scan"
    /\ projects = <<>>
    /\ jsonl_file = NoFile
    /\ read_result = ReturnNone
    /\ result = <<>>

Init ==
    /\ root_exists \in BOOLEAN
    /\ fs \in IF root_exists THEN ScanFileSystems ELSE {<<>>}
    /\ Start

InitRead ==
    /\ root_exists \in BOOLEAN
    /\ fs \in IF root_exists THEN ReadFileSystems ELSE {<<>>}
    /\ Start

ReturnEmpty ==
    /\ pc = "scan"
    /\ ~root_exists
    /\ result' = <<>>
    /\ pc' = "done"
    /\ UNCHANGED <<root_exists, fs, di, fi, projects, jsonl_file, read_result>>

SkipNotDir ==
    /\ pc = "scan"
    /\ root_exists
    /\ di <= Len(fs)
    /\ ~fs[di].is_dir
    /\ di' = di + 1
    /\ fi' = 1
    /\ UNCHANGED <<root_exists, fs, pc, projects, jsonl_file, read_result, result>>

ScanJsonl ==
    /\ pc = "scan"
    /\ root_exists
    /\ di <= Len(fs)
    /\ fs[di].is_dir
    /\ fi <= Len(fs[di].files)
    /\ LET file == fs[di].files[fi]
           acc == ScanJsonlFile([exc |-> "", projects |-> projects], file)
       IN /\ jsonl_file' = file
          /\ read_result' = ReadJsonlSession(file)
          /\ projects' = acc.projects
          /\ pc' = IF acc.exc # "" THEN "raised" ELSE "scan"
    /\ fi' = fi + 1
    /\ UNCHANGED <<root_exists, fs, di, result>>

NextProjectDir ==
    /\ pc = "scan"
    /\ root_exists
    /\ di <= Len(fs)
    /\ fs[di].is_dir
    /\ fi > Len(fs[di].files)
    /\ di' = di + 1
    /\ fi' = 1
    /\ UNCHANGED <<root_exists, fs, pc, projects, jsonl_file, read_result, result>>

SortAndReturn ==
    /\ pc = "scan"
    /\ root_exists
    /\ di > Len(fs)
    /\ projects' = SortAllSessions(projects)
    /\ result' = SortProjects(projects')
    /\ pc' = "done"
    /\ UNCHANGED <<root_exists, fs, di, fi, jsonl_file, read_result>>

Next ==
    \/ ReturnEmpty
    \/ SkipNotDir
    \/ ScanJsonl
    \/ NextProjectDir
    \/ SortAndReturn

Spec == Init /\ [][Next]_vars

SpecRead == InitRead /\ [][Next]_vars

(***************************************************************************)
(* What the files of fs hold, in enumeration order                         *)
(***************************************************************************)
RECURSIVE FilesOf(_)
FilesOf(entries) ==
    IF entries = <<>> THEN <<>>
    ELSE (IF Head(entries).is_dir THEN Head(entries).files ELSE <<>>) \o FilesOf(Tail(entries))

YieldedBy(files) == [i \in 1..Len(files) |-> ReadJsonlSession(files[i])]

SessionIdx(y) == {i \in 1..Len(y) : y[i].kind = "session"}

SessionIdxOf(y, path) == {i \in 1..Len(y) : y[i].kind = "session" /\ y[i].cwd = path}

Min(S) == CHOOSE x \in S : \A y \in S : x <= y

Discovered(y, path) ==
    LET idx == SelectSeq([i \in 1..Len(y) |-> i], LAMBDA i : i \in SessionIdxOf(y, path))
    IN [k \in 1..Len(idx) |-> y[idx[k]].session]

Perms(n) == {p \in [1..n -> 1..n] : \A a, b \in 1..n : p[a] = p[b] => a = b}

IsLastActive(project, m) ==
    /\ \E k \in 1..Len(project.sessions) : project.sessions[k].modified = m
    /\ \A k \in 1..Len(project.sessions) : project.sessions[k].modified <= m

UserLines(lines) == SelectSeq(lines, LAMBDA l : l.json = "object" /\ l.type = "user")

SummaryLines(lines) == SelectSeq(lines, LAMBDA l : l.json = "object" /\ l.type = "summary")

(***************************************************************************)
(* C1: whatever the log files hold, scan returns a project list and never  *)
(* fails.                                                                  *)
(***************************************************************************)
C1_ScanNeverFails == pc # "raised"

(***************************************************************************)
(* C2: the returned list holds exactly one Project per distinct            *)
(* originating path among the sessions read, its session count is the      *)
(* number of files that yielded a session with that path, and every        *)
(* session read is in exactly one Project.                                 *)
(***************************************************************************)
C2_OneProjectPerPath ==
    pc = "done" =>
        LET y == YieldedBy(FilesOf(fs)) IN
        /\ \A i, j \in 1..Len(result) : result[i].path = result[j].path => i = j
        /\ {result[i].path : i \in 1..Len(result)} = {y[f].cwd : f \in SessionIdx(y)}
        /\ \A i \in 1..Len(result) :
             Len(result[i].sessions) = Cardinality(SessionIdxOf(y, result[i].path))
        /\ \A f \in SessionIdx(y) :
             Cardinality({i \in 1..Len(result) :
                 \E k \in 1..Len(result[i].sessions) :
                     result[i].sessions[k] = y[f].session}) = 1

C2_Witness ==
    /\ pc = "done"
    /\ Len(result) = 2
    /\ result[1].name = result[2].name
    /\ \E i \in 1..2 :
         /\ Len(result[i].sessions) = 2
         /\ \E a \in 1..Len(fs[1].files), b \in 1..Len(fs[3].files) :
              /\ ReadJsonlSession(fs[1].files[a]).cwd = result[i].path
              /\ ReadJsonlSession(fs[3].files[b]).cwd = result[i].path
              /\ ReadJsonlSession(fs[1].files[a]).kind = "session"
              /\ ReadJsonlSession(fs[3].files[b]).kind = "session"

(***************************************************************************)
(* C3: the returned Projects are ordered by lastActive (the greatest       *)
(* modified time of the project's sessions) non-increasing, and Projects   *)
(* of equal lastActive are in the order their paths were first discovered. *)
(***************************************************************************)
C3_ProjectsByLastActive ==
    pc = "done" =>
        LET y == YieldedBy(FilesOf(fs)) IN
        \A i, j \in 1..Len(result) :
            i < j =>
                \E mi, mj \in 1..MaxTime :
                    /\ IsLastActive(result[i], mi)
                    /\ IsLastActive(result[j], mj)
                    /\ mi >= mj
                    /\ mi = mj =>
                         Min(SessionIdxOf(y, result[i].path)) < Min(SessionIdxOf(y, result[j].path))

C3_Witness ==
    /\ pc = "done"
    /\ Len(result) = 3
    /\ \E m \in 1..MaxTime : IsLastActive(result[2], m) /\ IsLastActive(result[3], m)
    /\ \E m \in 1..MaxTime : IsLastActive(result[1], m) /\ ~IsLastActive(result[2], m)
    /\ Min(SessionIdxOf(YieldedBy(FilesOf(fs)), result[1].path))
         > Min(SessionIdxOf(YieldedBy(FilesOf(fs)), result[2].path))

(***************************************************************************)
(* C4: in every returned Project the sessions are ordered by modified      *)
(* non-increasing, and sessions of equal modified time are in the order    *)
(* their files were discovered.                                            *)
(***************************************************************************)
C4_SessionsByModified ==
    pc = "done" =>
        \A i \in 1..Len(result) :
            LET out == result[i].sessions
                inn == Discovered(YieldedBy(FilesOf(fs)), result[i].path)
            IN /\ Len(out) = Len(inn)
               /\ \A a, b \in 1..Len(out) : a < b => out[a].modified >= out[b].modified
               /\ \E p \in Perms(Len(inn)) :
                    /\ \A k \in 1..Len(inn) : out[k] = inn[p[k]]
                    /\ \A a, b \in 1..Len(inn) :
                         (a < b /\ out[a].modified = out[b].modified) => p[a] < p[b]

C4_Witness ==
    /\ pc = "done"
    /\ \E i \in 1..Len(result) :
         LET out == result[i].sessions IN
         /\ Len(out) = 3
         /\ out[1].modified > out[2].modified
         /\ out[2].modified = out[3].modified
         /\ out[2] # out[3]
         /\ out # Discovered(YieldedBy(FilesOf(fs)), result[i].path)

(***************************************************************************)
(* C9: when the sessions all have different modified times, every order    *)
(* in which the directories and the files of a directory are enumerated    *)
(* yields the same sequence of Projects, each with the same name, path and *)
(* session sequence.                                                       *)
(***************************************************************************)
Permuted(s, p) == [k \in 1..Len(s) |-> s[p[k]]]

EntryOrders(entry) ==
    IF entry.is_dir
    THEN {Dir(Permuted(entry.files, q)) : q \in Perms(Len(entry.files))}
    ELSE {entry}

RECURSIVE Products(_)
Products(sets) ==
    IF sets = <<>> THEN {<<>>}
    ELSE {<<h>> \o t : h \in Head(sets), t \in Products(Tail(sets))}

Reorderings(entries) ==
    UNION {Products([k \in 1..Len(entries) |-> EntryOrders(entries[p[k]])]) :
              p \in Perms(Len(entries))}

DistinctModified ==
    LET y == YieldedBy(FilesOf(fs)) IN
    \A a, b \in SessionIdx(y) : y[a].session.modified = y[b].session.modified => a = b

C9_EnumerationOrderIrrelevant ==
    (pc \in {"done", "raised"} /\ root_exists /\ DistinctModified) =>
        \A o \in Reorderings(fs) :
            LET r == ScanProjects(root_exists, o) IN
            /\ (r.exc # "") = (pc = "raised")
            /\ pc = "done" => r.result = result

C9_Witness ==
    /\ pc = "done"
    /\ DistinctModified
    /\ Len(result) = 1
    /\ Len(result[1].sessions) = 2
    /\ result[1].sessions # Discovered(YieldedBy(FilesOf(fs)), result[1].path)
    /\ Len(fs[1].files) = 1
    /\ Len(fs[3].files) = 1

(***************************************************************************)
(* C5: for a log file that yields a session, firstPrompt and the           *)
(* originating path both come from the first record of type "user":        *)
(* firstPrompt is its content when that is a plain string and is empty     *)
(* otherwise, whatever later "user" records hold; the path is its cwd; the *)
(* Project is named after the final component of that cwd.  Stated for     *)
(* files whose first "user" record has a message with a content.           *)
(***************************************************************************)
C5_FirstUserRecordSupplies ==
    ( /\ read_result.kind = "session"
      /\ UserLines(jsonl_file.lines) # <<>>
      /\ Head(UserLines(jsonl_file.lines)).message = OBJECT
      /\ Head(UserLines(jsonl_file.lines)).content # ABSENT ) =>
        LET u == Head(UserLines(jsonl_file.lines)) IN
        /\ read_result.session.first_prompt =
             (IF IsStr(MessageContent(u)) THEN MessageContent(u) ELSE "")
        /\ read_result.cwd = Get(u, "cwd", "")
        /\ (pc = "done" /\ read_result.cwd \in {"/tmp/b", "/b"}) => result[1].name = "b"

(***************************************************************************)
(* C5 as amended: firstPrompt is the content of the first "user" record    *)
(* whose content is a non-empty plain string (empty when there is none);   *)
(* the originating path is the first non-empty cwd among the "user"        *)
(* records up to and including that one (empty or null when there is       *)
(* none); the Project is named after the final component of that path, or  *)
(* after the path itself when it has no final component.                   *)
(***************************************************************************)
C5_FirstTextPromptSupplies ==
    read_result.kind = "session" =>
        LET us == UserLines(jsonl_file.lines)
            texts == {k \in 1..Len(us) :
                         IsStr(MessageContent(us[k])) /\ MessageContent(us[k]) # ""}
            last == IF texts = {} THEN Len(us) ELSE Min(texts)
            cwds == {k \in 1..last : Get(us[k], "cwd", "") \notin {"", None}}
        IN /\ read_result.session.first_prompt =
                (IF texts = {} THEN "" ELSE MessageContent(us[last]))
           /\ IF cwds = {} THEN read_result.cwd \in {"", None}
              ELSE read_result.cwd = us[Min(cwds)].cwd
           /\ pc = "done" =>
                /\ Len(result) = 1
                /\ result[1].path = read_result.cwd
                /\ result[1].name =
                     (IF read_result.cwd \in {"/tmp/b", "/b"} THEN "b" ELSE read_result.cwd)

C5_Witness ==
    /\ pc = "done"
    /\ read_result.kind = "session"
    /\ Len(UserLines(jsonl_file.lines)) = 2
    /\ UserLines(jsonl_file.lines)[1].content = LIST
    /\ UserLines(jsonl_file.lines)[1].cwd = "/tmp/b"
    /\ UserLines(jsonl_file.lines)[2].cwd = "/b"
    /\ read_result.session.first_prompt = "p2"
    /\ result[1].path = "/tmp/b"
    /\ result[1].name = "b"

(***************************************************************************)
(* C6: for a log file that yields a session, the summary is the summary    *)
(* field of the first record of type "summary"; later "summary" records    *)
(* never change it.  Stated for files whose first "summary" record has a   *)
(* non-empty summary.                                                      *)
(***************************************************************************)
C6_FirstSummarySupplies ==
    ( /\ read_result.kind = "session"
      /\ SummaryLines(jsonl_file.lines) # <<>>
      /\ Get(Head(SummaryLines(jsonl_file.lines)), "summary", "") # "" ) =>
        read_result.session.summary = Head(SummaryLines(jsonl_file.lines)).summary

(***************************************************************************)
(* C7: a log file in which no record has a timestamp field yields no       *)
(* session, whatever "summary" and "user" records it holds: no session is  *)
(* added to a Project and no Project is created.                           *)
(***************************************************************************)
NoTimestampField(lines) == \A k \in 1..Len(lines) : lines[k].timestamp = ABSENT

C7_NoTimestampNoSession ==
    NoTimestampField(jsonl_file.lines) =>
        /\ read_result.kind # "session"
        /\ projects = <<>>
        /\ result = <<>>

C7_Witness ==
    /\ pc = "done"
    /\ jsonl_file.readable
    /\ NoTimestampField(jsonl_file.lines)
    /\ \E k \in 1..Len(jsonl_file.lines) :
         jsonl_file.lines[k].type = "summary" /\ jsonl_file.lines[k].summary = "S1"
    /\ \E k \in 1..Len(jsonl_file.lines) :
         jsonl_file.lines[k].type = "user" /\ jsonl_file.lines[k].content = "p2"
    /\ read_result.kind = "none"
    /\ result = <<>>

(***************************************************************************)
(* C8: the early exit does not affect the result: stopping once the        *)
(* created timestamp, the first prompt and the summary are all non-empty   *)
(* yields the same (path, summary, firstPrompt, created) as applying the   *)
(* same per-record updates to every record of the file.                    *)
(***************************************************************************)
RECURSIVE ReadLinesNoBreak(_, _)
ReadLinesNoBreak(lines, acc) ==
    IF lines = <<>> THEN acc
    ELSE LET line == Head(lines) IN
         IF line.json = "invalid" THEN ReadLinesNoBreak(Tail(lines), acc)
         ELSE IF line.json = "value" THEN [acc EXCEPT !.exc = "AttributeError"]
         ELSE LET a == Update(acc, line) IN
              IF a.exc # "" THEN a ELSE ReadLinesNoBreak(Tail(lines), a)

WholeFile == MakeSession(ReadLinesNoBreak(jsonl_file.lines, InitAcc), jsonl_file.mtime)

C8_EarlyExitUnobservable ==
    (jsonl_file.readable /\ read_result.kind = "session" /\ WholeFile.kind = "session") =>
        /\ read_result.cwd = WholeFile.cwd
        /\ read_result.session = WholeFile.session

(***************************************************************************)
(* C10: a log file with a timestamp-bearing record and no "user" record    *)
(* that supplies a non-empty cwd yields a session whose originating path   *)
(* is the empty string, grouped under the Project whose path and name are  *)
(* both the empty string.  Stated for files whose lines are all JSON       *)
(* objects, whose timestamps are ISO-8601 strings and whose messages are   *)
(* objects.                                                                *)
(***************************************************************************)
WellFormed(lines) ==
    \A k \in 1..Len(lines) :
        /\ lines[k].json = "object"
        /\ lines[k].timestamp \in {ABSENT, T1Z, T2}
        /\ lines[k].message \in {ABSENT, OBJECT}

C10_NoCwdEmptyPath ==
    ( /\ jsonl_file.readable
      /\ WellFormed(jsonl_file.lines)
      /\ \E k \in 1..Len(jsonl_file.lines) : jsonl_file.lines[k].timestamp # ABSENT
      /\ \A k \in 1..Len(jsonl_file.lines) :
           jsonl_file.lines[k].type = "user" => jsonl_file.lines[k].cwd \in {ABSENT, "", None} )
    => /\ read_result.kind = "session"
       /\ read_result.cwd = ""
       /\ pc # "raised"
       /\ \E i \in 1..Len(projects) : projects[i].path = "" /\ projects[i].name = ""

====
